---- MODULE Spec2Model ----
(***************************************************************************)
(* Model of the query pipeline of src/ask.py: the producer loop of main(), *)
(* the bounded task_queue, the AskWorker threads (run / process_query),    *)
(* the global_lock around console output and confirmation prompts, and     *)
(* the token budgeting loop of process_query.                              *)
(***************************************************************************)
EXTENDS Integers, Sequences, FiniteSets, TLC

(* ------------------------------------------------------------------ *)
(* Sizes.  ask.py sets NUM_WORKERS = 4 and QUEUE_SIZE = 100; the model *)
(* runs the same code with a smaller pool and a smaller queue so that  *)
(* a full queue and every interleaving are explored exhaustively.      *)
(* ------------------------------------------------------------------ *)
NUM_WORKERS == 2

QUEUE_SIZE == 2

MAX_TOKENS == 128000

MAX_RETRIES == 5

\* questions the user types in one session: enough to fill the queue
MaxJobs == QUEUE_SIZE + 1

\* [FILE_UPDATE] blocks found in one answer
MaxUpdates == 2

\* documents returned by the retriever for one query
MaxDocs == 3

\* pieces (blocks and text between them) an answer is put together from
MaxSegs == 3

Workers == 1..NUM_WORKERS

Jobs == 1..MaxJobs

\* Python's None: the poison item on the queue, the free lock, no writer
None == 0

(* ------------------------------------------------------------------ *)
(* Text: a line is a sequence of characters.                           *)
(* ------------------------------------------------------------------ *)
Whitespace == {" ", "\t", "\n"}

\* lines the user can type at the "Apply this update? [y/N] " prompt
Replies ==
    { <<>>, <<"y">>, <<"n">>, <<" ", "Y", "\t">>, <<"y", "e", "s">>, <<"y", " ", "y">> }

\* lines the user can type at the "Q: " prompt
Queries == { <<>>, <<" ">>, <<"\t", " ">>, <<"q">>, <<" ", "q", " ">> }

RECURSIVE LStrip(_)
LStrip(s) ==
    IF s = <<>> THEN s
    ELSE IF Head(s) \in Whitespace THEN LStrip(Tail(s)) ELSE s

RECURSIVE RStrip(_)
RStrip(s) ==
    IF s = <<>> THEN s
    ELSE IF s[Len(s)] \in Whitespace THEN RStrip(SubSeq(s, 1, Len(s) - 1)) ELSE s

\* str.strip()
Strip(s) == RStrip(LStrip(s))

LowerChar(c) ==
    CASE c = "Y" -> "y"
      [] c = "N" -> "n"
      [] OTHER -> c

\* str.lower()
Lower(s) == [i \in 1..Len(s) |-> LowerChar(s[i])]

(* ------------------------------------------------------------------ *)
(* State                                                               *)
(* ------------------------------------------------------------------ *)
VARIABLES
    \* main(): the producer
    ppc,               \* where main() is: "input", "put", "poison", "qjoin", "wjoin", "done"
    question_counter,  \* question_counter of main()
    poisoned,          \* iterations done of the loop that puts None
    joined,            \* iterations done of the loop that joins the workers
    pending,           \* the prompt the user typed user_query at: "none", "query", "reply"
    \* queue.Queue(maxsize=QUEUE_SIZE)
    queue,             \* the items, oldest first: a question number, or None
    unfinished,        \* Queue.unfinished_tasks
    \* threading.Lock()
    global_lock,       \* the worker holding it, or None
    \* AskWorker threads
    wpc,               \* where each worker is
    item,              \* the question number the worker is processing, or None
    failure,           \* the exception being handled: "none", "retrieval", "generation"
    answer,            \* answer of process_query: "None", "empty", "text"
    nblocks,           \* number of (fname, new_code) pairs parsed from the answer
    upd,               \* pairs of updates the for loop has gone through
    typed,             \* the line input() returned at the prompt, as typed
    confirm,           \* confirm of process_query: the line stripped and lowered
    calls,             \* calls of chat() made for the question the worker is processing
    message,           \* what the worker has reported of its question: "none",
                       \* "retrieval_error", "unexpected_error", "no_answer", "answer"
    typedFor,          \* the prompt the user typed that line at: "none", "reply", "query"
    \* the terminal and the file system
    writer,            \* the worker whose step has just written to the terminal, or None
    writes,            \* calls of update_file_contents that wrote their file
    \* history
    submitted,         \* questions put on the queue so far (they are numbered 1, 2, ...)
    deqOrder,          \* the question numbers in the order they were dequeued
    outcome,           \* per question: "none", "answered", "failed"
    done,              \* per question: calls of task_done() made for it
    handler,           \* per question: the worker that dequeued it, or None
    \* the budgeting loop of process_query
    bpc,               \* "idle", "loop", "built", "called"
    docs,              \* token cost of each piece, in the retriever's order
    base_tokens,
    current_tokens,
    context_parts,     \* indices of the pieces appended
    bi,                \* index of the piece the loop is at
    \* parse_file_update_instructions
    rpc,               \* "idle", "scan", "done"
    segs,              \* what the answer was put together from
    answer_text,       \* the answer: a sequence of characters and marker literals
    scan,              \* where findall looks for the next match
    updates            \* results: the (fname, code) pairs found so far

prodVars == <<ppc, question_counter, poisoned, joined>>

queueVars == <<queue, unfinished>>

workerVars == <<wpc, item, failure, answer, nblocks, upd, typed, confirm>>

\* the calls and reports of a worker, and where the lines read came from
ioVars == <<calls, message, typedFor, pending>>

histVars == <<submitted, deqOrder, outcome, done, handler>>

budgetVars == <<bpc, docs, base_tokens, current_tokens, context_parts, bi>>

parserVars == <<rpc, segs, answer_text, scan, updates>>

vars ==
    <<prodVars, queueVars, global_lock, workerVars, ioVars, writer, writes, histVars,
      budgetVars, parserVars>>

\* a thread that has ended: run() returned, or an exception left run()
Finished(w) == wpc[w] \in {"terminated", "crashed"}

PoolInit ==
    /\ ppc = "input"
    /\ question_counter = 0
    /\ poisoned = 0
    /\ joined = 0
    /\ queue = <<>>
    /\ unfinished = 0
    /\ global_lock = None
    /\ wpc = [w \in Workers |-> "get"]
    /\ item = [w \in Workers |-> None]
    /\ failure = [w \in Workers |-> "none"]
    /\ answer = [w \in Workers |-> "None"]
    /\ nblocks = [w \in Workers |-> 0]
    /\ upd = [w \in Workers |-> 0]
    /\ typed = [w \in Workers |-> <<>>]
    /\ confirm = [w \in Workers |-> <<>>]
    /\ calls = [w \in Workers |-> 0]
    /\ message = [w \in Workers |-> "none"]
    /\ typedFor = [w \in Workers |-> "none"]
    /\ pending = "none"
    /\ writer = None
    /\ writes = 0
    /\ submitted = 0
    /\ deqOrder = <<>>
    /\ outcome = [j \in Jobs |-> "none"]
    /\ done = [j \in Jobs |-> 0]
    /\ handler = [j \in Jobs |-> None]

BudgetIdle ==
    /\ bpc = "idle"
    /\ docs = <<>>
    /\ base_tokens = 0
    /\ current_tokens = 0
    /\ context_parts = <<>>
    /\ bi = 0

ParserIdle ==
    /\ rpc = "idle"
    /\ segs = <<>>
    /\ answer_text = <<>>
    /\ scan = 0
    /\ updates = <<>>

Init == PoolInit /\ BudgetIdle /\ ParserIdle

(* ------------------------------------------------------------------ *)
(* queue.Queue                                                         *)
(* ------------------------------------------------------------------ *)
\* Queue.put blocks while the queue holds maxsize items
NotFull(q) == Len(q) < QUEUE_SIZE

\* Queue._put appends on the right and put() counts the item as unfinished
Put(q, x) == Append(q, x)

\* a get() that pops on the right
GetIndexLast(q) == Len(q)

\* Queue._get is deque.popleft(): the position of the item get() returns
GetIndex(q) == 1

\* a get() that leaves the item on the queue
WithoutNothing(q, i) == q

\* the queue once the item at position i has been taken out
Without(q, i) == SubSeq(q, 1, i - 1) \o SubSeq(q, i + 1, Len(q))

(* ------------------------------------------------------------------ *)
(* main(): the producer, lines 412-428                                 *)
(* ------------------------------------------------------------------ *)
\* lines 251, 415: the two calls of input() read the same standard input.
\* A line comes from Replies when the user typed it at "Apply this update?"
\* and from Queries when the user typed it at "Q: ".
Lines(meant) == IF meant = "reply" THEN Replies ELSE Queries

\* line 415: what input() of main() can return: a line typed at "Q: ", and,
\* while a worker is in input() at line 251, a line typed at its prompt
TypedAtMain ==
    {"query"} \cup (IF \E w \in Workers : wpc[w] = "prompt" THEN {"reply"} ELSE {})

\* line 251: what input() of a worker can return: a line typed at its
\* prompt, and, while main() is in input() at line 415, a line typed at "Q: "
TypedAtWorker == {"reply"} \cup (IF ppc = "input" THEN {"query"} ELSE {})

\* lines 415-419: read a line; a blank line is ignored, any other line
\* gets the next question number
ProducerInput ==
    /\ ppc = "input"
    /\ question_counter < MaxJobs
    /\ \E meant \in TypedAtMain : \E user_query \in Lines(meant) :
          IF Strip(user_query) = <<>>
          THEN UNCHANGED <<ppc, question_counter, pending>>
          ELSE /\ question_counter' = question_counter + 1
               /\ ppc' = "put"
               /\ pending' = meant
    /\ writer' = None
    /\ UNCHANGED <<poisoned, joined, queueVars, global_lock, workerVars, writes,
                   histVars, budgetVars, parserVars,
                   calls, message, typedFor>>

\* line 420: task_queue.put((user_query, question_counter)), blocking while full
ProducerPut ==
    /\ ppc = "put"
    /\ NotFull(queue)
    /\ queue' = Put(queue, question_counter)
    /\ unfinished' = unfinished + 1
    /\ ppc' = "input"
    /\ submitted' = submitted + 1
    /\ writer' = None
    /\ pending' = "none"
    /\ UNCHANGED <<question_counter, poisoned, joined, global_lock, workerVars, writes,
                   deqOrder, outcome, done, handler, budgetVars, parserVars,
                   calls, message, typedFor>>

\* lines 413-422: KeyboardInterrupt reaches the main thread anywhere in the
\* try block, at input() or inside a put() that is waiting for room
Interrupt ==
    /\ ppc \in {"input", "put"}
    /\ ppc' = "poison"
    /\ writer' = None
    /\ pending' = "none"
    /\ UNCHANGED <<question_counter, poisoned, joined, queueVars, global_lock, workerVars,
                   writes, histVars, budgetVars, parserVars,
                   calls, message, typedFor>>

\* lines 424-425: one None per worker, each put blocking while full
ProducerPoison ==
    /\ ppc = "poison"
    /\ poisoned < NUM_WORKERS
    /\ NotFull(queue)
    /\ queue' = Put(queue, None)
    /\ unfinished' = unfinished + 1
    /\ poisoned' = poisoned + 1
    /\ ppc' = IF poisoned + 1 = NUM_WORKERS THEN "qjoin" ELSE "poison"
    /\ writer' = None
    /\ UNCHANGED <<question_counter, joined, global_lock, workerVars, writes,
                   histVars, budgetVars, parserVars,
                   calls, message, typedFor, pending>>

\* line 426: task_queue.join() returns when unfinished_tasks is 0
ProducerQueueJoin ==
    /\ ppc = "qjoin"
    /\ unfinished = 0
    /\ ppc' = "wjoin"
    /\ writer' = None
    /\ UNCHANGED <<question_counter, poisoned, joined, queueVars, global_lock, workerVars,
                   writes, histVars, budgetVars, parserVars,
                   calls, message, typedFor, pending>>

\* lines 427-428: w.join() for each worker in turn, returning once it has ended
ProducerJoin ==
    /\ ppc = "wjoin"
    /\ joined < NUM_WORKERS
    /\ Finished(joined + 1)
    /\ joined' = joined + 1
    /\ ppc' = IF joined + 1 = NUM_WORKERS THEN "done" ELSE "wjoin"
    /\ writer' = None
    /\ UNCHANGED <<question_counter, poisoned, queueVars, global_lock, workerVars,
                   writes, histVars, budgetVars, parserVars,
                   calls, message, typedFor, pending>>

Producer ==
    \/ ProducerInput
    \/ ProducerPut
    \/ Interrupt
    \/ ProducerPoison
    \/ ProducerQueueJoin
    \/ ProducerJoin

(* ------------------------------------------------------------------ *)
(* AskWorker.run, lines 173-182                                        *)
(* ------------------------------------------------------------------ *)
\* lines 175-180: get() blocks while the queue is empty; None ends the loop,
\* a question goes to process_query
Get(w) ==
    /\ wpc[w] = "get"
    /\ queue # <<>>
    /\ LET i == GetIndex(queue)
           x == queue[i]
       IN  /\ queue' = Without(queue, i)
           /\ IF x = None
              THEN /\ wpc' = [wpc EXCEPT ![w] = "poison"]
                   /\ UNCHANGED <<item, deqOrder, handler>>
              ELSE /\ wpc' = [wpc EXCEPT ![w] = "announce"]
                   /\ item' = [item EXCEPT ![w] = x]
                   /\ deqOrder' = Append(deqOrder, x)
                   /\ handler' = [handler EXCEPT ![x] = w]
    /\ writer' = None
    /\ UNCHANGED <<prodVars, unfinished, global_lock, failure, answer, nblocks, upd, typed,
                   confirm, writes, submitted, outcome, done, budgetVars, parserVars,
                   calls, message, typedFor, pending>>

\* lines 177-178: task_done() for the None, then break: run() returns
PoisonDone(w) ==
    /\ wpc[w] = "poison"
    /\ unfinished' = unfinished - 1
    /\ wpc' = [wpc EXCEPT ![w] = "terminated"]
    /\ writer' = None
    /\ UNCHANGED <<prodVars, queue, global_lock, item, failure, answer, nblocks, upd, typed,
                   confirm, writes, histVars, budgetVars, parserVars,
                   calls, message, typedFor, pending>>

\* line 182: task_done() after process_query returned; its locals are gone
TaskDone(w) ==
    /\ wpc[w] = "task_done"
    /\ unfinished' = unfinished - 1
    /\ done' = [done EXCEPT ![item[w]] = @ + 1]
    /\ wpc' = [wpc EXCEPT ![w] = "get"]
    /\ item' = [item EXCEPT ![w] = None]
    /\ failure' = [failure EXCEPT ![w] = "none"]
    /\ answer' = [answer EXCEPT ![w] = "None"]
    /\ nblocks' = [nblocks EXCEPT ![w] = 0]
    /\ upd' = [upd EXCEPT ![w] = 0]
    /\ typed' = [typed EXCEPT ![w] = <<>>]
    /\ confirm' = [confirm EXCEPT ![w] = <<>>]
    /\ writer' = None
    /\ calls' = [calls EXCEPT ![w] = 0]
    /\ message' = [message EXCEPT ![w] = "none"]
    /\ typedFor' = [typedFor EXCEPT ![w] = "none"]
    /\ UNCHANGED <<prodVars, queue, global_lock, writes, submitted, deqOrder, outcome,
                   handler, budgetVars, parserVars,
                   pending>>

(* ------------------------------------------------------------------ *)
(* AskWorker.process_query, lines 184-256                              *)
(* ------------------------------------------------------------------ *)
\* threading.Lock.acquire on entering "with global_lock:": waits until free
Acquire(w) == global_lock = None /\ global_lock' = w

\* leaving "with global_lock:", by the end of the block, a return or an exception
Release(w) == global_lock' = None

\* a bar that is redrawn only once the console lock is free
BarRedrawGated(w) == IF global_lock \in {None, w} THEN {w, None} ELSE {}

\* lines 197, 234: pbar.update(1) takes no lock; the bar is redrawn only if
\* enough time has passed since it was last drawn
BarRedraw(w) == {w, None}

\* line 185: enter the first guarded block
Announce(w) ==
    /\ wpc[w] = "announce"
    /\ Acquire(w)
    /\ wpc' = [wpc EXCEPT ![w] = "announcing"]
    /\ writer' = None
    /\ UNCHANGED <<prodVars, queueVars, item, failure, answer, nblocks, upd, typed, confirm,
                   writes, histVars, budgetVars, parserVars,
                   calls, message, typedFor, pending>>

\* lines 186-187: print "(Processing question #idx)" and leave the block
Announced(w) ==
    /\ wpc[w] = "announcing"
    /\ writer' = w
    /\ Release(w)
    /\ wpc' = [wpc EXCEPT ![w] = "bar_open"]
    /\ UNCHANGED <<prodVars, queueVars, item, failure, answer, nblocks, upd, typed, confirm,
                   writes, histVars, budgetVars, parserVars,
                   calls, message, typedFor, pending>>

\* line 188: tqdm(total=2, ...) draws the progress bar, outside any guarded block
BarOpen(w) ==
    /\ wpc[w] = "bar_open"
    /\ writer' = w
    /\ wpc' = [wpc EXCEPT ![w] = "retrieving"]
    /\ UNCHANGED <<prodVars, queueVars, global_lock, item, failure, answer, nblocks, upd,
                   typed, confirm, writes, histVars, budgetVars, parserVars,
                   calls, message, typedFor, pending>>

\* lines 192, 197: retriever.invoke returns the documents; pbar.update(1)
RetrieveOk(w) ==
    /\ wpc[w] = "retrieving"
    /\ writer' \in BarRedraw(w)
    /\ wpc' = [wpc EXCEPT ![w] = "budgeting"]
    /\ UNCHANGED <<prodVars, queueVars, global_lock, item, failure, answer, nblocks, upd,
                   typed, confirm, writes, histVars, budgetVars, parserVars,
                   calls, message, typedFor, pending>>

\* lines 192-193: retriever.invoke raises
RetrieveFails(w) ==
    /\ wpc[w] = "retrieving"
    /\ failure' = [failure EXCEPT ![w] = "retrieval"]
    /\ wpc' = [wpc EXCEPT ![w] = "except"]
    /\ writer' = None
    /\ UNCHANGED <<prodVars, queueVars, global_lock, item, answer, nblocks, upd, typed,
                   confirm, writes, histVars, budgetVars, parserVars,
                   calls, message, typedFor, pending>>

\* lines 200-216: count the tokens, select the pieces, build user_prompt
\* (the loop itself is BudgetAdmit / BudgetBreak / BudgetEnd below)
BuildPrompt(w) ==
    /\ wpc[w] = "budgeting"
    /\ wpc' = [wpc EXCEPT ![w] = "generating"]
    /\ writer' = None
    /\ UNCHANGED <<prodVars, queueVars, global_lock, item, failure, answer, nblocks, upd,
                   typed, confirm, writes, histVars, budgetVars, parserVars,
                   calls, message, typedFor, pending>>

\* lines 221-228, 234-235: a chat() call of the for loop returns and "break"
\* leaves the loop; resp.message.content
\* is a text with some update blocks, an empty string or None; pbar.update(1),
\* and the progress bar is closed (drawn a last time) on leaving "with tqdm"
GenerateOk(w) ==
    /\ wpc[w] = "generating"
    /\ calls[w] < MAX_RETRIES
    /\ calls' = [calls EXCEPT ![w] = @ + 1]
    /\ \E a \in {"text", "empty", "None"} : answer' = [answer EXCEPT ![w] = a]
    /\ writer' = w
    /\ wpc' = [wpc EXCEPT ![w] = "answer_wait"]
    /\ UNCHANGED <<prodVars, queueVars, global_lock, item, failure, nblocks, upd, typed, confirm,
                   writes, histVars, budgetVars, parserVars,
                   message, typedFor, pending>>

\* an except clause that lets the for loop go on to the next attempt
OnChatErrorRetry(w) == "generating"

\* lines 229-232: any exception of chat() goes to the except clause, which returns
OnChatError(w) == "except"

\* lines 221-223, 229: a chat() call of the for loop raises
GenerateFails(w) ==
    /\ wpc[w] = "generating"
    /\ calls[w] < MAX_RETRIES
    /\ calls' = [calls EXCEPT ![w] = @ + 1]
    /\ failure' = [failure EXCEPT ![w] = "generation"]
    /\ wpc' = [wpc EXCEPT ![w] = OnChatError(w)]
    /\ writer' = None
    /\ UNCHANGED <<prodVars, queueVars, global_lock, item, answer, nblocks, upd, typed,
                   confirm, writes, histVars, budgetVars, parserVars,
                   message, typedFor, pending>>

\* lines 194, 230: enter the guarded block of the except clause
ExceptAcquire(w) ==
    /\ wpc[w] = "except"
    /\ Acquire(w)
    /\ wpc' = [wpc EXCEPT ![w] = "reporting"]
    /\ writer' = None
    /\ UNCHANGED <<prodVars, queueVars, item, failure, answer, nblocks, upd, typed, confirm,
                   writes, histVars, budgetVars, parserVars,
                   calls, message, typedFor, pending>>

\* an except clause that raises again instead of returning
AfterReportRaise(w) == "crashed"

\* lines 196, 232: "return" after the error was printed
AfterReport(w) == "returning"

\* lines 195, 231: what the except clause prints
ErrorMessage(f) == IF f = "retrieval" THEN "retrieval_error" ELSE "unexpected_error"

\* lines 195, 231: print the error and leave the guarded block
Report(w) ==
    /\ wpc[w] = "reporting"
    /\ writer' = w
    /\ outcome' = [outcome EXCEPT ![item[w]] = "failed"]
    /\ Release(w)
    /\ wpc' = [wpc EXCEPT ![w] = AfterReport(w)]
    /\ message' = [message EXCEPT ![w] = ErrorMessage(failure[w])]
    /\ UNCHANGED <<prodVars, queueVars, item, failure, answer, nblocks, upd, typed, confirm,
                   writes, submitted, deqOrder, done, handler, budgetVars, parserVars,
                   calls, typedFor, pending>>

\* lines 196, 232: return from inside "with tqdm": the bar is closed (drawn a
\* last time) and process_query returns to run()
Return(w) ==
    /\ wpc[w] = "returning"
    /\ writer' = w
    /\ wpc' = [wpc EXCEPT ![w] = "task_done"]
    /\ UNCHANGED <<prodVars, queueVars, global_lock, item, failure, answer, nblocks, upd,
                   typed, confirm, writes, histVars, budgetVars, parserVars,
                   calls, message, typedFor, pending>>

\* line 237: enter the guarded block of the answer
AnswerAcquire(w) ==
    /\ wpc[w] = "answer_wait"
    /\ Acquire(w)
    /\ wpc' = [wpc EXCEPT ![w] = "answer"]
    /\ writer' = None
    /\ UNCHANGED <<prodVars, queueVars, item, failure, answer, nblocks, upd, typed, confirm,
                   writes, histVars, budgetVars, parserVars,
                   calls, message, typedFor, pending>>

\* a test that reads "answer is not None"
NotNone(a) == a # "None"

\* line 238: "if answer:" is false for None and for the empty string
Truthy(a) == a = "text"

\* line 243: the number of pairs the parser can find in the answer; the
\* empty string has none
BlocksIn(a) == IF a = "text" THEN 0..MaxUpdates ELSE {0}

\* lines 238-243, 255-256: a non-empty answer is printed and parsed;
\* None or "" prints "No answer was returned."
PrintAnswer(w) ==
    /\ wpc[w] = "answer"
    /\ writer' = w
    /\ IF Truthy(answer[w])
       THEN /\ outcome' = [outcome EXCEPT ![item[w]] = "answered"]
            /\ message' = [message EXCEPT ![w] = "answer"]
            /\ \E n \in BlocksIn(answer[w]) : nblocks' = [nblocks EXCEPT ![w] = n]
       ELSE /\ outcome' = [outcome EXCEPT ![item[w]] = "failed"]
            /\ message' = [message EXCEPT ![w] = "no_answer"]
            /\ UNCHANGED nblocks
    /\ upd' = [upd EXCEPT ![w] = 0]
    /\ wpc' = [wpc EXCEPT ![w] = "updates"]
    /\ UNCHANGED <<prodVars, queueVars, global_lock, item, failure, answer, typed,
                   confirm, writes, submitted, deqOrder, done, handler, budgetVars, parserVars,
                   calls, typedFor, pending>>

\* lines 244-250: the for loop takes the next pair and prints the proposal
Propose(w) ==
    /\ wpc[w] = "updates"
    /\ upd[w] < nblocks[w]
    /\ writer' = w
    /\ typed' = [typed EXCEPT ![w] = <<>>]
    /\ confirm' = [confirm EXCEPT ![w] = <<>>]
    /\ wpc' = [wpc EXCEPT ![w] = "prompt"]
    /\ typedFor' = [typedFor EXCEPT ![w] = "none"]
    /\ UNCHANGED <<prodVars, queueVars, global_lock, item, failure, answer, nblocks, upd,
                   writes, histVars, budgetVars, parserVars,
                   calls, message, pending>>

\* a test that reads confirm.startswith('y')
AffirmativePrefix(c) == c # <<>> /\ c[1] = "y"

\* line 252: the test that lets the update through
Affirmative(c) == c = <<"y">>

\* lines 251-252: input() returns the line typed; confirm is it stripped and
\* lowered; only 'y' goes on to update_file_contents
Confirm(w) ==
    /\ wpc[w] = "prompt"
    /\ \E meant \in TypedAtWorker : \E line \in Lines(meant) :
          /\ typed' = [typed EXCEPT ![w] = line]
          /\ typedFor' = [typedFor EXCEPT ![w] = meant]
          /\ confirm' = [confirm EXCEPT ![w] = Lower(Strip(line))]
          /\ IF Affirmative(Lower(Strip(line)))
             THEN /\ wpc' = [wpc EXCEPT ![w] = "write"]
                  /\ upd' = upd
             ELSE /\ wpc' = [wpc EXCEPT ![w] = "updates"]
                  /\ upd' = [upd EXCEPT ![w] = @ + 1]
    /\ writer' = w
    /\ UNCHANGED <<prodVars, queueVars, global_lock, item, failure, answer, nblocks, writes,
                   histVars, budgetVars, parserVars,
                   calls, message, pending>>

\* line 253: update_file_contents writes the file (the reply is not read again)
WriteOk(w) ==
    /\ wpc[w] = "write"
    /\ writes' = writes + 1
    /\ wpc' = [wpc EXCEPT ![w] = "updated"]
    /\ typed' = [typed EXCEPT ![w] = <<>>]
    /\ confirm' = [confirm EXCEPT ![w] = <<>>]
    /\ writer' = None
    /\ typedFor' = [typedFor EXCEPT ![w] = "none"]
    /\ UNCHANGED <<prodVars, queueVars, global_lock, item, failure, answer, nblocks, upd,
                   histVars, budgetVars, parserVars,
                   calls, message, pending>>

\* where a worker is once update_file_contents has raised: nothing in
\* process_query or run() catches the exception, so it leaves the guarded
\* block (releasing the lock), process_query and run(): the thread ends
AfterWriteError(w) == "crashed"

\* acquire() / release() written by hand, with no try / finally
KeepOnError(w) == UNCHANGED global_lock

\* "with global_lock:" left by an exception: Lock.__exit__ releases the lock
ReleaseOnError(w) == global_lock' = None

\* line 253: update_file_contents raises (makedirs, open or write fails)
WriteFails(w) ==
    /\ wpc[w] = "write"
    /\ ReleaseOnError(w)
    /\ wpc' = [wpc EXCEPT ![w] = AfterWriteError(w)]
    /\ upd' = [upd EXCEPT ![w] = IF AfterWriteError(w) = "crashed" THEN @ ELSE @ + 1]
    /\ typed' = [typed EXCEPT ![w] = <<>>]
    /\ confirm' = [confirm EXCEPT ![w] = <<>>]
    /\ writer' = None
    /\ typedFor' = [typedFor EXCEPT ![w] = "none"]
    /\ UNCHANGED <<prodVars, queueVars, item, failure, answer, nblocks, writes, histVars,
                   budgetVars, parserVars,
                   calls, message, pending>>

\* line 254: print "File ... has been updated."
Updated(w) ==
    /\ wpc[w] = "updated"
    /\ writer' = w
    /\ upd' = [upd EXCEPT ![w] = @ + 1]
    /\ wpc' = [wpc EXCEPT ![w] = "updates"]
    /\ UNCHANGED <<prodVars, queueVars, global_lock, item, failure, answer, nblocks, typed,
                   confirm, writes, histVars, budgetVars, parserVars,
                   calls, message, typedFor, pending>>

\* line 256/257: the for loop is over (or the answer was empty): leave the
\* guarded block; process_query returns to run()
LeaveGate(w) ==
    /\ wpc[w] = "updates"
    /\ upd[w] >= nblocks[w]
    /\ Release(w)
    /\ wpc' = [wpc EXCEPT ![w] = "task_done"]
    /\ typed' = [typed EXCEPT ![w] = <<>>]
    /\ confirm' = [confirm EXCEPT ![w] = <<>>]
    /\ writer' = None
    /\ typedFor' = [typedFor EXCEPT ![w] = "none"]
    /\ UNCHANGED <<prodVars, queueVars, item, failure, answer, nblocks, upd, writes,
                   histVars, budgetVars, parserVars,
                   calls, message, pending>>

Worker(w) ==
    \/ Get(w)
    \/ PoisonDone(w)
    \/ Announce(w)
    \/ Announced(w)
    \/ BarOpen(w)
    \/ RetrieveOk(w)
    \/ RetrieveFails(w)
    \/ BuildPrompt(w)
    \/ GenerateOk(w)
    \/ GenerateFails(w)
    \/ ExceptAcquire(w)
    \/ Report(w)
    \/ Return(w)
    \/ AnswerAcquire(w)
    \/ PrintAnswer(w)
    \/ Propose(w)
    \/ Confirm(w)
    \/ WriteOk(w)
    \/ WriteFails(w)
    \/ Updated(w)
    \/ LeaveGate(w)
    \/ TaskDone(w)

Next == Producer \/ \E w \in Workers : Worker(w)

Spec == Init /\ [][Next]_vars

\* Scheduling: every thread that can take a step eventually takes one.  For
\* the user, this assumes a pending confirmation prompt is eventually
\* answered; nothing is assumed about when a question or Ctrl+C is typed.
ProducerShutdown == ProducerPut \/ ProducerPoison \/ ProducerQueueJoin \/ ProducerJoin

Fairness ==
    /\ WF_vars(ProducerShutdown)
    /\ \A w \in Workers : WF_vars(Worker(w))

FairSpec == Init /\ [][Next]_vars /\ Fairness

(* ------------------------------------------------------------------ *)
(* The budgeting loop of process_query, lines 203-214, on its own      *)
(* ------------------------------------------------------------------ *)
\* token counts len(enc.encode(...)) can take, around the ceiling
CostValues == {0, 1, 64000, 127999, MAX_TOKENS, MAX_TOKENS + 1}

\* the sequences of at most n costs
CostSeqs(n) == UNION { [1..k -> CostValues] : k \in 0..n }

\* lines 203-206: base_tokens is counted, context_parts = [], current_tokens = base_tokens
BudgetInit ==
    /\ PoolInit
    /\ ParserIdle
    /\ bpc = "loop"
    /\ docs \in CostSeqs(MaxDocs)
    /\ base_tokens \in CostValues
    /\ current_tokens = base_tokens
    /\ context_parts = <<>>
    /\ bi = 1

\* a test that also turns away the piece that fills the budget exactly
ExceedsEarly(cur, piece_tokens) == cur + piece_tokens >= MAX_TOKENS

\* a test that looks at the piece alone
ExceedsAlone(cur, piece_tokens) == piece_tokens > MAX_TOKENS

\* line 211: the test that stops the loop
Exceeds(cur, piece_tokens) == cur + piece_tokens > MAX_TOKENS

poolVars == <<prodVars, queueVars, global_lock, workerVars, ioVars, writer, writes, histVars>>

\* lines 213-214: the piece fits and is appended
BudgetAdmit ==
    /\ bpc = "loop"
    /\ bi <= Len(docs)
    /\ ~Exceeds(current_tokens, docs[bi])
    /\ context_parts' = Append(context_parts, bi)
    /\ current_tokens' = current_tokens + docs[bi]
    /\ bi' = bi + 1
    /\ UNCHANGED <<bpc, docs, base_tokens, poolVars, parserVars>>

\* a loop that passes over the piece that does not fit and goes on
OnOverflowSkip(i) == [pc |-> "loop", i |-> i + 1]

\* line 212: break leaves the loop, the index stays on the piece that did not fit
OnOverflow(i) == [pc |-> "built", i |-> i]

\* lines 211-212: the piece does not fit: break
BudgetBreak ==
    /\ bpc = "loop"
    /\ bi <= Len(docs)
    /\ Exceeds(current_tokens, docs[bi])
    /\ bpc' = OnOverflow(bi).pc
    /\ bi' = OnOverflow(bi).i
    /\ UNCHANGED <<docs, base_tokens, current_tokens, context_parts, poolVars, parserVars>>

\* line 207: the documents are exhausted
BudgetEnd ==
    /\ bpc = "loop"
    /\ bi > Len(docs)
    /\ bpc' = "built"
    /\ UNCHANGED <<docs, base_tokens, current_tokens, context_parts, bi, poolVars, parserVars>>

\* a builder that gives the job up when the skeleton alone is over the ceiling
AfterBuildChecked == IF base_tokens > MAX_TOKENS THEN "aborted" ELSE "called"

\* lines 216-228: whatever was admitted, the prompt is built and chat() is called
AfterBuild == "called"

\* lines 216-228: user_prompt is base_msg with the context put in; chat() is called
BudgetCall ==
    /\ bpc = "built"
    /\ bpc' = AfterBuild
    /\ UNCHANGED <<docs, base_tokens, current_tokens, context_parts, bi, poolVars, parserVars>>

BudgetNext == BudgetAdmit \/ BudgetBreak \/ BudgetEnd \/ BudgetCall

BudgetSpec == BudgetInit /\ [][BudgetNext]_vars

\* the cost of the pieces whose indices are in parts
RECURSIVE CostOf(_)
CostOf(parts) ==
    IF parts = <<>> THEN 0 ELSE docs[Head(parts)] + CostOf(Tail(parts))

(* ------------------------------------------------------------------ *)
(* parse_file_update_instructions, lines 116-138, on its own           *)
(* The answer is a sequence whose elements are single characters and   *)
(* the four literals of the pattern, each taken as one element.        *)
(* ------------------------------------------------------------------ *)
BEGIN == "[FILE_UPDATE]"

END == "[/FILE_UPDATE]"

FILENAME == "filename:"

CODE == "code:"

\* paths a block can name
Paths == { <<"a">>, <<"b">>, <<"d", "/", "a">> }

\* code bodies of a block: empty, plain, holding "filename:", holding
\* "[FILE_UPDATE]", holding "code:" on a second line
Contents ==
    { <<>>, <<"x">>, <<FILENAME, " ", "x">>, <<BEGIN, "x">>, <<"x", "\n", CODE, "y">> }

\* text of the answer around the blocks
Proses == { <<"z">>, <<"z", " ", FILENAME, CODE, "\n">> }

\* the pieces an answer is put together from: a block in the format of lines
\* 120-124, the same block with its last line missing, and plain text
Segments ==
    [kind : {"block"}, fname : Paths, code : Contents]
        \cup [kind : {"open"}, fname : Paths, code : {<<"x">>}]
        \cup [kind : {"prose"}, fname : {<<>>}, code : Proses]

\* lines 120-124: the text of one piece
Render(g) ==
    CASE g.kind = "block" ->
            <<BEGIN, "\n", FILENAME, " ">> \o g.fname \o <<"\n", CODE, "\n">> \o g.code
                \o <<"\n", END, "\n">>
      [] g.kind = "open" ->
            <<BEGIN, "\n", FILENAME, " ">> \o g.fname \o <<"\n", CODE, "\n">> \o g.code
                \o <<"\n">>
      [] OTHER -> g.code

RECURSIVE RenderAll(_)
RenderAll(gs) == IF gs = <<>> THEN <<>> ELSE Render(Head(gs)) \o RenderAll(Tail(gs))

\* the sequences of at most n pieces
SegSeqs(n) == UNION { [1..k -> Segments] : k \in 0..n }

\* line 132: findall starts at the beginning of the answer
ParserInit ==
    /\ PoolInit
    /\ BudgetIdle
    /\ rpc = "scan"
    /\ segs \in SegSeqs(MaxSegs)
    /\ answer_text = RenderAll(segs)
    /\ scan = 1
    /\ updates = <<>>

\* the least index from lo on whose element is in S, or 0
FirstIn(t, S, lo) ==
    LET I == { i \in lo..Len(t) : t[i] \in S }
    IN  IF I = {} THEN 0 ELSE CHOOSE i \in I : \A j \in I : i <= j

\* the least index from lo on whose element is not white space, or 0
FirstNonSpace(t, lo) ==
    LET I == { i \in lo..Len(t) : t[i] \notin Whitespace }
    IN  IF I = {} THEN 0 ELSE CHOOSE i \in I : \A j \in I : i <= j

\* line 129, "\s*(.+?)X": where X is found when the part before it starts
\* right after index at, or 0.  \s* first takes all the white space, the
\* group starts at the next element s and takes at least that one, X is the
\* first X after s; failing that, \s* gives one white space back to the
\* group and X is s itself.
GroupEnd(t, X, at) ==
    LET s == FirstNonSpace(t, at + 1)
        x == IF s = 0 THEN 0 ELSE FirstIn(t, {X}, s + 1)
    IN  IF x # 0 THEN x
        ELSE IF s > at + 1 /\ t[s] = X THEN s
        ELSE 0

\* line 129, "filename:\s*(.+?)\s*code:" with "filename:" at index f: the
\* index of the "code:" the match uses, or 0.  It is the one GroupEnd gives
\* if the rest of the pattern matches after it, else "code:" right after the
\* white space if the rest matches after that one.
CodeLabel(t, f) ==
    LET s == FirstNonSpace(t, f + 1)
        c == GroupEnd(t, CODE, f)
    IN  IF c # 0 /\ GroupEnd(t, END, c) # 0 THEN c
        ELSE IF s > f + 1 /\ t[s] = CODE /\ GroupEnd(t, END, s) # 0 THEN s
        ELSE 0

\* line 129: the match of the pattern that starts at index p, if there is one
MatchAt(t, p) ==
    LET f == FirstNonSpace(t, p + 1)
        c == IF f # 0 /\ t[f] = FILENAME THEN CodeLabel(t, f) ELSE 0
        e == IF c # 0 THEN GroupEnd(t, END, c) ELSE 0
    IN  [ok    |-> t[p] = BEGIN /\ e # 0,
         fname |-> IF e # 0 THEN SubSeq(t, f + 1, c - 1) ELSE <<>>,
         code  |-> IF e # 0 THEN SubSeq(t, c + 1, e - 1) ELSE <<>>,
         end   |-> e]

\* lines 132-137: findall finds the next match from scan on; its groups are
\* stripped and appended to results
ParseMatch ==
    /\ rpc = "scan"
    /\ \E p \in scan..Len(answer_text) :
          /\ MatchAt(answer_text, p).ok
          /\ \A q \in scan..(p - 1) : ~MatchAt(answer_text, q).ok
          /\ updates' = Append(updates, <<Strip(MatchAt(answer_text, p).fname),
                                          Strip(MatchAt(answer_text, p).code)>>)
          /\ scan' = MatchAt(answer_text, p).end + 1
    /\ UNCHANGED <<rpc, segs, answer_text, poolVars, budgetVars>>

\* lines 132, 138: no match is left: results is returned
ParseEnd ==
    /\ rpc = "scan"
    /\ \A p \in scan..Len(answer_text) : ~MatchAt(answer_text, p).ok
    /\ rpc' = "done"
    /\ UNCHANGED <<segs, answer_text, scan, updates, poolVars, budgetVars>>

ParserNext == ParseMatch \/ ParseEnd

ParserSpec == ParserInit /\ [][ParserNext]_vars

(* ------------------------------------------------------------------ *)
(* Properties                                                          *)
(* ------------------------------------------------------------------ *)
Count(seq, x) == Cardinality({i \in 1..Len(seq) : seq[i] = x})

\* inside a "with global_lock:" block
InGate(w) ==
    wpc[w] \in {"announcing", "reporting", "answer", "updates", "prompt", "write", "updated"}

\* inside the block of line 237: answer, proposals, prompts, writes
InAnswerBlock(w) == wpc[w] \in {"answer", "updates", "prompt", "write", "updated"}

\* inside process_query
Busy(w) == wpc[w] \notin {"get", "poison", "terminated", "crashed", "task_done"}

\* no question is waiting and no worker is working on one
Drained ==
    /\ \A j \in Jobs : Count(queue, j) = 0
    /\ \A w \in Workers : ~Busy(w)

\* C1: every question put on the queue is dequeued at most once and by one
\* worker, is never lost (it is on the queue or has been dequeued exactly
\* once), and once the work is drained the number of questions answered or
\* reported as failed equals the number submitted.
C1_ExactlyOnce ==
    /\ \A j \in Jobs :
          /\ Count(deqOrder, j) <= 1
          /\ Count(queue, j) + Count(deqOrder, j) = (IF j <= submitted THEN 1 ELSE 0)
          /\ Cardinality({w \in Workers : item[w] = j}) <= 1
          /\ Count(deqOrder, j) = 0 => outcome[j] = "none"
    /\ Drained => Cardinality({j \in Jobs : outcome[j] # "none"}) = submitted
    /\ ppc = "done" => Cardinality({j \in Jobs : done[j] = 1}) = submitted

C1_Witness ==
    /\ ppc = "done"
    /\ submitted = MaxJobs
    /\ \E j, k \in Jobs : handler[j] = 1 /\ handler[k] = 2
    /\ \E j, k \in Jobs : outcome[j] = "answered" /\ outcome[k] = "failed"

\* C2: once the producer has seen the interrupt, it eventually returns from
\* the queue join and the worker joins, with every worker Terminated and
\* every question submitted answered or reported as failed.
C2_ShutdownDrains ==
    (ppc = "poison") ~>
        (/\ ppc = "done"
         /\ \A w \in Workers : wpc[w] = "terminated"
         /\ \A j \in 1..submitted : outcome[j] # "none")

\* C3: at most one worker is inside a guarded block, and while a worker is in
\* the block that prints its answer and asks for its confirmations, no other
\* worker writes to the terminal.
C3_GateExclusive ==
    /\ Cardinality({w \in Workers : InGate(w)}) <= 1
    /\ \A w \in Workers : InAnswerBlock(w) => writer \in {None, w}

\* the lock part of C3 alone
GateMutex ==
    /\ Cardinality({w \in Workers : InGate(w)}) <= 1
    /\ \A w \in Workers : InGate(w) <=> global_lock = w

\* C4: the lock is held only by a worker inside a guarded block: a worker
\* that is idle, terminated or whose thread has ended (an exception raised
\* inside the block included) does not hold it.
C4_LockReleased ==
    /\ \A w \in Workers : global_lock = w => InGate(w)
    /\ \A w \in Workers : wpc[w] \in {"get", "poison", "terminated", "crashed"} => global_lock # w

C4_Witness ==
    \E w, v \in Workers : wpc[w] = "crashed" /\ v # w /\ global_lock = v /\ wpc[v] = "prompt"

\* C5: a failing file write does not end the worker: the only way a worker
\* thread ends is the poison value.
C5_WriteFailureContained ==
    \A w \in Workers : Finished(w) => wpc[w] = "terminated"

\* C6: a retrieval error, a generation error or an empty answer is reported
\* while holding the lock; the question is then marked done exactly once and
\* its worker goes back to get().
C6_FailureContained ==
    /\ \A w \in Workers : wpc[w] \in {"reporting", "answer"} => global_lock = w
    /\ \A w \in Workers : failure[w] # "none" =>
          wpc[w] \in {"except", "reporting", "returning", "task_done"}
    /\ \A j \in Jobs : outcome[j] = "failed" =>
          LET w == handler[j] IN
             IF item[w] = j
             THEN /\ done[j] = 0
                  /\ wpc[w] \in {"returning", "task_done", "updates"}
                  /\ wpc[w] = "updates" => nblocks[w] = 0
             ELSE done[j] = 1

C6_Witness ==
    \E j, k \in Jobs : \E w \in Workers :
        /\ j < k
        /\ outcome[j] = "failed" /\ done[j] = 1 /\ handler[j] = w
        /\ outcome[k] = "failed" /\ handler[k] = w /\ item[w] = k /\ failure[w] = "generation"

\* the lines that mean yes: one y or Y, with only white space around it
IsYes(line) ==
    \E i \in 1..Len(line) :
        /\ line[i] \in {"y", "Y"}
        /\ \A k \in (1..Len(line)) \ {i} : line[k] \in Whitespace

\* C7: a prompt leads to update_file_contents if and only if the line typed at
\* that prompt is a yes; any other line moves on to the next proposal with the
\* files untouched, and a file is written only by a worker whose last prompt,
\* for the same proposal, was answered yes.
C7_ConfirmGate ==
    [][\A w \in Workers :
          /\ (wpc[w] = "prompt" /\ wpc'[w] # "prompt") =>
                /\ wpc'[w] = "write" <=> IsYes(typed'[w])
                /\ wpc'[w] = "write" => upd'[w] = upd[w]
                /\ wpc'[w] # "write" =>
                      wpc'[w] = "updates" /\ upd'[w] = upd[w] + 1 /\ writes' = writes
          /\ (wpc[w] = "write" /\ wpc'[w] # "write") => IsYes(typed[w])
          /\ writes' # writes =>
                \E v \in Workers : wpc[v] = "write" /\ wpc'[v] = "updated" /\ IsYes(typed[v])
      ]_vars

C7_Witness ==
    \E w \in Workers :
        /\ wpc[w] = "updates" /\ upd[w] = 2 /\ writes = 1
        /\ typed[w] = <<"y", "e", "s">>

\* C8: the queue never holds more than QUEUE_SIZE items, and a submit that
\* is blocked on a full queue stays pending until there is room: it is never
\* given up.
C8_Backpressure ==
    /\ [](Len(queue) <= QUEUE_SIZE)
    /\ [][(ppc = "put" /\ ~NotFull(queue)) => ppc' = "put"]_vars

\* C9: questions are dequeued in the order they were submitted, and no
\* question is still on the queue once a poison value has been dequeued.
C9_FifoOrder ==
    /\ \A i \in 1..Len(deqOrder) : deqOrder[i] = i
    /\ (\E w \in Workers : wpc[w] \in {"poison", "terminated"}) =>
          \A j \in Jobs : Count(queue, j) = 0

C9_Witness ==
    /\ Len(deqOrder) = MaxJobs
    /\ \E w, v \in Workers : wpc[w] = "terminated" /\ Busy(v)

\* C10 as stated: the cost of the skeleton plus the admitted pieces never
\* exceeds MAX_TOKENS, whatever the skeleton costs.
C10_CeilingAnySkeleton ==
    base_tokens + CostOf(context_parts) <= MAX_TOKENS

\* C10, amended: the running total is the cost of the skeleton plus the
\* admitted pieces; it does not exceed MAX_TOKENS once a piece has been
\* admitted, nor when the skeleton alone costs no more than MAX_TOKENS.
C10_BudgetCeiling ==
    /\ current_tokens = base_tokens + CostOf(context_parts)
    /\ context_parts # <<>> => current_tokens <= MAX_TOKENS
    /\ base_tokens <= MAX_TOKENS => current_tokens <= MAX_TOKENS

C10_Witness ==
    /\ bpc = "built"
    /\ Len(context_parts) = 2
    /\ Len(docs) > 2
    /\ base_tokens > 0
    /\ current_tokens = MAX_TOKENS

(* ------------------------------------------------------------------ *)
(* The budgeting loop: what is admitted and what is turned away        *)
(* ------------------------------------------------------------------ *)
\* the pieces that were retrieved and are not in the context
Rejected == { i \in 1..Len(docs) : \A k \in 1..Len(context_parts) : context_parts[k] # i }

\* the cost of the first n pieces
PrefixCost(n) == CostOf([i \in 1..n |-> i])

\* C11 as stated: once the loop is over, appending any rejected piece to
\* the admitted ones would take the total over MAX_TOKENS.
C11_AnyRejectedOverflows ==
    bpc # "loop" =>
        \A i \in Rejected : base_tokens + CostOf(context_parts) + docs[i] > MAX_TOKENS

\* C11, amended: once the loop is over, appending the first rejected piece
\* to the admitted ones would take the total over MAX_TOKENS.
C11_FirstRejectedOverflows ==
    bpc # "loop" =>
        \A i \in Rejected :
            (\A j \in Rejected : i <= j) =>
                base_tokens + CostOf(context_parts) + docs[i] > MAX_TOKENS

C11_Witness ==
    /\ bpc = "built"
    /\ context_parts = <<1>>
    /\ Rejected = {2, 3}
    /\ base_tokens + docs[1] + docs[2] > MAX_TOKENS
    /\ base_tokens + docs[1] + docs[3] <= MAX_TOKENS

\* C12: the admitted pieces are the first k pieces in input order, nothing
\* after a rejected piece is admitted, and once the loop is over k is the
\* length of the longest prefix that fits with the skeleton.
C12_LongestPrefix ==
    /\ context_parts = [k \in 1..Len(context_parts) |-> k]
    /\ \A i \in Rejected : \A j \in i..Len(docs) : j \in Rejected
    /\ context_parts # <<>> => base_tokens + PrefixCost(Len(context_parts)) <= MAX_TOKENS
    /\ bpc # "loop" =>
          \A n \in 0..Len(docs) :
              base_tokens + PrefixCost(n) <= MAX_TOKENS => n <= Len(context_parts)

C12_Witness ==
    /\ bpc = "built"
    /\ context_parts = <<1>>
    /\ Len(docs) = 3
    /\ docs[2] > docs[3]
    /\ base_tokens + docs[1] + docs[3] <= MAX_TOKENS

\* C13: when the skeleton alone costs more than MAX_TOKENS no piece is
\* admitted, and the job is not given up: the prompt goes to the model
\* without context.
C13_OversizedSkeleton ==
    base_tokens > MAX_TOKENS =>
        /\ context_parts = <<>>
        /\ bpc \in {"loop", "built", "called"}

C13_Witness ==
    /\ base_tokens > MAX_TOKENS
    /\ Len(docs) = MaxDocs
    /\ docs[1] = 0
    /\ context_parts = <<>>
    /\ bpc = "called"

(* ------------------------------------------------------------------ *)
(* The parser: what comes back of what was put in                      *)
(* ------------------------------------------------------------------ *)
\* the (path, content) pairs of the well-formed blocks of gs, in order, trimmed
RECURSIVE Embedded(_)
Embedded(gs) ==
    IF gs = <<>> THEN <<>>
    ELSE IF Head(gs).kind = "block"
         THEN <<<<Strip(Head(gs).fname), Strip(Head(gs).code)>>>> \o Embedded(Tail(gs))
         ELSE Embedded(Tail(gs))

WellFormedOnly == \A i \in 1..Len(segs) : segs[i].kind # "open"

DistinctPaths ==
    \A i, j \in 1..Len(segs) :
        segs[i].kind = "block" /\ segs[j].kind = "block" /\ i # j => segs[i].fname # segs[j].fname

NoBlankContent == \A i \in 1..Len(segs) : segs[i].kind = "prose" \/ Strip(segs[i].code) # <<>>

\* C14: for an answer made of well-formed blocks with distinct paths and
\* text without markers between them, the parser returns the pairs of
\* the blocks, in order, trimmed.
C14_RoundTrip ==
    rpc = "done" /\ WellFormedOnly /\ DistinctPaths => updates = Embedded(segs)

\* The round trip when no block has an empty or blank code body.
RoundTripNonBlank ==
    rpc = "done" /\ WellFormedOnly /\ NoBlankContent => updates = Embedded(segs)

\* C15: a block without its end marker gives no pair, wherever it is, and
\* the well-formed blocks around it are returned as they are (code bodies
\* not blank).
C15_UnterminatedOmitted ==
    rpc = "done" /\ ~WellFormedOnly /\ NoBlankContent => updates = Embedded(segs)

(* ------------------------------------------------------------------ *)
(* Generation, termination, the gate and the two readers of stdin      *)
(* ------------------------------------------------------------------ *)
\* C16: chat() is called at most once for a question.  When the call
\* returns, its answer is the one that is printed; when it raises, the
\* question is given up at once: the error is reported under the lock and
\* no further call is made.
C16_SingleAttempt ==
    \A w \in Workers :
        /\ calls[w] <= 1
        /\ wpc[w] \in {"answer_wait", "answer", "updates", "prompt", "write", "updated"} =>
              calls[w] = 1 /\ failure[w] = "none"
        /\ failure[w] = "generation" =>
              /\ calls[w] = 1
              /\ answer[w] = "None"
              /\ wpc[w] \in {"except", "reporting", "returning", "task_done"}
              /\ wpc[w] = "reporting" => global_lock = w
              /\ wpc[w] \in {"returning", "task_done"} => message[w] = "unexpected_error"

C16_Witness ==
    \E w, v \in Workers :
        /\ failure[w] = "generation" /\ wpc[w] = "task_done" /\ calls[w] = 1
        /\ message[w] = "unexpected_error"
        /\ answer[v] = "text" /\ wpc[v] = "updates" /\ calls[v] = 1

\* The steps of the protocol: a worker becomes Terminated only after it took
\* a None off the queue while waiting in get(), a Terminated worker stays so,
\* and every None put is on the queue or was taken by one worker of its own.
TerminationSteps ==
    \A w \in Workers :
        /\ wpc'[w] = "terminated" => wpc[w] \in {"poison", "terminated"}
        /\ wpc'[w] = "poison" /\ wpc[w] # "poison" =>
              wpc[w] = "get" /\ queue # <<>> /\ Head(queue) = None /\ queue' = Tail(queue)
        /\ wpc[w] = "terminated" => wpc'[w] = "terminated"

PoisonCount ==
    poisoned = Count(queue, None)
                 + Cardinality({w \in Workers : wpc[w] \in {"poison", "terminated"}})

\* C17 without its last clause: the steps above, at every step.
TerminationSafety == [][TerminationSteps]_vars /\ []PoisonCount

\* C17: a worker becomes Terminated only from get() and only by taking a
\* None; a worker inside process_query does not see the shutdown; a
\* Terminated worker takes nothing more; each None is taken by one worker,
\* and once the NUM_WORKERS values are put they end all NUM_WORKERS workers.
C17_TerminationProtocol ==
    /\ [][TerminationSteps]_vars
    /\ []PoisonCount
    /\ (poisoned = NUM_WORKERS) ~> (queue = <<>> /\ \A w \in Workers : wpc[w] = "terminated")

\* the steps of a question on its way to the answer: the bar, retrieval,
\* the prompt, generation
Advance(v) == BarOpen(v) \/ RetrieveOk(v) \/ BuildPrompt(v) \/ GenerateOk(v)

\* a worker inside process_query that cannot take a step
Blocked(v) == Busy(v) /\ ~ENABLED Worker(v)

\* C18 as stated: while a worker waits for a reply at its prompt, any other
\* worker that has a question, dequeued before or after the prompt, can go
\* on through retrieval, budgeting and generation, and waits for the lock
\* only where it prints its answer.
C18_ProgressFromDequeue ==
    \A w, v \in Workers :
        wpc[w] = "prompt" /\ v # w =>
            /\ wpc[v] \in {"announce", "bar_open", "retrieving", "budgeting", "generating"} =>
                  ENABLED (Announce(v) \/ Advance(v))
            /\ Blocked(v) => wpc[v] = "answer_wait"

\* C18, amended: while a worker waits for a reply at its prompt, any other
\* worker that has printed its "Processing question" line can go on through
\* retrieval, budgeting and generation; a worker waits for the lock only
\* where it prints: at that first line, at an error report, at its answer.
C18_ProgressAfterAnnouncement ==
    \A w, v \in Workers :
        wpc[w] = "prompt" /\ v # w =>
            /\ wpc[v] \in {"bar_open", "retrieving", "budgeting", "generating"} =>
                  ENABLED Advance(v)
            /\ Blocked(v) => wpc[v] \in {"announce", "except", "answer_wait"}

C18_Witness ==
    \E w, v \in Workers :
        /\ wpc[w] = "prompt" /\ v # w
        /\ wpc[v] = "retrieving"
        /\ Len(deqOrder) = 2 /\ deqOrder[2] = item[v]

\* C19: a question whose retrieval raised, whose chat() call raised or whose
\* answer is None or empty is never parsed and never gets a prompt or a
\* write; an empty or missing answer is reported as "no answer", an
\* exception as an error.
C19_NoWriteForFailedJob ==
    \A w \in Workers :
        /\ wpc[w] \in {"prompt", "write", "updated"} =>
              failure[w] = "none" /\ answer[w] = "text" /\ message[w] = "answer"
        /\ answer[w] # "text" => nblocks[w] = 0 /\ upd[w] = 0 /\ typed[w] = <<>>
        /\ message[w] = "no_answer" <=>
              answer[w] # "text" /\ failure[w] = "none" /\ wpc[w] \in {"updates", "task_done"}
        /\ message[w] \in {"retrieval_error", "unexpected_error"} =>
              failure[w] # "none" /\ wpc[w] \in {"returning", "task_done"}

C19_Witness ==
    \E w, v \in Workers :
        /\ answer[w] = "empty" /\ wpc[w] = "task_done" /\ message[w] = "no_answer"
        /\ failure[v] = "retrieval" /\ wpc[v] = "task_done" /\ message[v] = "retrieval_error"
        /\ writes = 0

\* C20: a line typed at a worker's prompt is never read by main() as a
\* question, and a line typed at "Q: " is never read as a reply.
C20_InputRouting ==
    /\ pending # "reply"
    /\ \A w \in Workers : typedFor[w] # "query"

====
